---- MODULE Spec2Model ----
(***************************************************************************)
(* Model of buffett_app.py: the 10-K section extractor (extract_sections)  *)
(* and the request pipeline of the /analyze/10k/<ticker>/<section> route   *)
(* (analyze_10k).  Strings are sequences of one-character strings;         *)
(* offsets are 0-based as in Python, so text[p] is text[p + 1] here.       *)
(***************************************************************************)
EXTENDS Integers, Sequences, FiniteSets, TLC

VARIABLES text, sections, spans, i, pc,
          ticker, section, cik, url, selected, summary, response, trace, outcome

vars == <<text, sections, spans, i, pc,
          ticker, section, cik, url, selected, summary, response, trace, outcome>>

\* Largest number of chunks concatenated into a generated filing text.
MaxChunks == 3

(***************************************************************************)
(* Characters and strings                                                  *)
(***************************************************************************)
\* Characters for which str.isspace() holds (the ones \s matches).
Whitespace == {" ", "\n", "\t"}

UpperToLower ==
  ("A" :> "a") @@ ("B" :> "b") @@ ("C" :> "c") @@ ("D" :> "d") @@ ("E" :> "e") @@
  ("F" :> "f") @@ ("G" :> "g") @@ ("H" :> "h") @@ ("I" :> "i") @@ ("J" :> "j") @@
  ("K" :> "k") @@ ("L" :> "l") @@ ("M" :> "m") @@ ("N" :> "n") @@ ("O" :> "o") @@
  ("P" :> "p") @@ ("Q" :> "q") @@ ("R" :> "r") @@ ("S" :> "s") @@ ("T" :> "t") @@
  ("U" :> "u") @@ ("V" :> "v") @@ ("W" :> "w") @@ ("X" :> "x") @@ ("Y" :> "y") @@
  ("Z" :> "z")

\* str.lower() on one character.
lower_char(c) == IF c \in DOMAIN UpperToLower THEN UpperToLower[c] ELSE c

\* str.lower()
lower(s) == [k \in 1..Len(s) |-> lower_char(s[k])]

\* s[a:b] for 0 <= a, b <= len(s)
Slice(s, a, b) == SubSeq(s, a + 1, b)

RECURSIVE lstrip(_)
lstrip(s) ==
  IF s # <<>> /\ Head(s) \in Whitespace THEN lstrip(Tail(s)) ELSE s

RECURSIVE rstrip(_)
rstrip(s) ==
  IF s # <<>> /\ s[Len(s)] \in Whitespace THEN rstrip(SubSeq(s, 1, Len(s) - 1)) ELSE s

\* str.strip()
strip(s) == rstrip(lstrip(s))

MaxOf(S) == CHOOSE x \in S : \A y \in S : y <= x
MinOf(S) == CHOOSE x \in S : \A y \in S : x <= y

\* str.startswith
startswith(s, prefix) ==
  Len(s) >= Len(prefix) /\ SubSeq(s, 1, Len(prefix)) = prefix

(***************************************************************************)
(* Regular expressions: a pattern is a sequence of elements, each a        *)
(* literal character or a greedy repetition of a character class.          *)
(***************************************************************************)
Lit(s) == [k \in 1..Len(s) |-> [kind |-> "lit", c |-> s[k], min |-> 1]]
WsPlus == <<[kind |-> "rep", c |-> "\\s", min |-> 1]>>
WsStar == <<[kind |-> "rep", c |-> "\\s", min |-> 0]>>
DotStar == <<[kind |-> "rep", c |-> "\\.", min |-> 0]>>

InClass(cls, ch) ==
  IF cls = "\\s" THEN ch \in Whitespace ELSE ch = "."

\* re.IGNORECASE comparison of a text character with a (lowercase) literal.
LitMatches(lit, ch) == lower_char(ch) = lit

\* Number of consecutive characters of class cls in s from offset p on.
RECURSIVE Run(_, _, _)
Run(cls, s, p) ==
  IF p < Len(s) /\ InClass(cls, s[p + 1]) THEN 1 + Run(cls, s, p + 1) ELSE 0

\* End offset of the match of pat[k..] anchored at offset p of s, or -1.
\* A repetition takes as many characters as it can and gives them back one
\* by one while the rest of the pattern fails (backtracking).
RECURSIVE MatchHere(_, _, _, _)
RECURSIVE Greedy(_, _, _, _, _)
MatchHere(pat, k, s, p) ==
  IF k > Len(pat) THEN p
  ELSE IF pat[k].kind = "lit"
       THEN IF p < Len(s) /\ LitMatches(pat[k].c, s[p + 1])
            THEN MatchHere(pat, k + 1, s, p + 1)
            ELSE -1
       ELSE Greedy(pat, k, s, p, Run(pat[k].c, s, p))

Greedy(pat, k, s, p, n) ==
  IF n < pat[k].min THEN -1
  ELSE LET r == MatchHere(pat, k + 1, s, p + n)
       IN IF r # -1 THEN r ELSE Greedy(pat, k, s, p, n - 1)

\* Offset of the leftmost match at or after offset p, or -1.
search_from(pat, s, p) ==
  LET found == {q \in p..Len(s) : MatchHere(pat, 1, s, q) # -1}
  IN IF found = {} THEN -1
     ELSE MinOf(found)

\* re.search(pat, s, re.IGNORECASE): offset of the match, or -1 for None.
re_search(pat, s) == search_from(pat, s, 0)

\* re.finditer(pat, s, re.IGNORECASE) as a list: the non-overlapping
\* matches from left to right, each with its start and end offset.
RECURSIVE finditer_from(_, _, _)
finditer_from(pat, s, p) ==
  LET st == search_from(pat, s, p)
  IN IF st = -1 THEN <<>>
     ELSE LET en == MatchHere(pat, 1, s, st)
          IN <<[start |-> st, end |-> en]>>
               \o finditer_from(pat, s, IF en = st THEN st + 1 ELSE en)

re_finditer(pat, s) == finditer_from(pat, s, 0)

(***************************************************************************)
(* extract_sections                                                        *)
(***************************************************************************)
item == <<"i","t","e","m">>

Business == <<"B","u","s","i","n","e","s","s">>
RiskFactors == <<"R","i","s","k"," ","F","a","c","t","o","r","s">>
MDandA == <<"M","a","n","a","g","e","m","e","n","t","'","s"," ","D","i","s","c","u","s","s","i","o","n"," ","a","n","d"," ","A","n","a","l","y","s","i","s">>
QuantQual == <<"Q","u","a","n","t","i","t","a","t","i","v","e"," ","a","n","d"," ","Q","u","a","l","i","t","a","t","i","v","e"," ","D","i","s","c","l","o","s","u","r","e","s">>
FinancialStatements == <<"F","i","n","a","n","c","i","a","l"," ","S","t","a","t","e","m","e","n","t","s">>

patterns == <<
  [start |-> Lit(item) \o WsPlus \o Lit(<<"1">>) \o DotStar \o WsStar \o Lit(<<"b","u","s","i","n","e","s","s">>),
   name |-> Business,
   end |-> Lit(item) \o WsPlus \o Lit(<<"1","a">>)],
  [start |-> Lit(item) \o WsPlus \o Lit(<<"1","a">>) \o DotStar \o WsStar \o Lit(<<"r","i","s","k">>)
               \o WsStar \o Lit(<<"f","a","c","t","o","r","s">>),
   name |-> RiskFactors,
   end |-> Lit(item) \o WsPlus \o Lit(<<"1","b">>)],
  [start |-> Lit(item) \o WsPlus \o Lit(<<"7">>) \o DotStar \o WsStar \o Lit(<<"m","a","n","a","g","e","m","e","n","t">>),
   name |-> MDandA,
   end |-> Lit(item) \o WsPlus \o Lit(<<"7","a">>)],
  [start |-> Lit(item) \o WsPlus \o Lit(<<"7","a">>),
   name |-> QuantQual,
   end |-> Lit(item) \o WsPlus \o Lit(<<"8">>)],
  [start |-> Lit(item) \o WsPlus \o Lit(<<"8">>),
   name |-> FinancialStatements,
   end |-> Lit(item) \o WsPlus \o Lit(<<"9">>)] >>

NumPatterns == Len(patterns)

EmptyMap == [k \in {} |-> <<>>]

Put(m, k, v) == [x \in DOMAIN m \cup {k} |-> IF x = k THEN v ELSE m[x]]

select_first(matches) == matches[1]

\* matches[-1]
select_match(matches) == matches[Len(matches)]

start_at_end(m) == m.end

\* .start() of the selected match
match_start(m) == m.start

end_in_whole_text(end_pattern, s, start) ==
  LET end_match == re_search(end_pattern, s)
  IN IF end_match # -1 THEN end_match ELSE Len(s)

end_always_len(end_pattern, s, start) == Len(s)

\* end_match = re.search(end_pattern, text[start:]); 
\* end = start + end_match.start() if end_match else len(text)
end_offset(end_pattern, s, start) ==
  LET end_match == re_search(end_pattern, Slice(s, start, Len(s)))
  IN IF end_match # -1 THEN start + end_match ELSE Len(s)

section_text_unstripped(s, start, end) == Slice(s, start, end)

\* section_text = text[start:end].strip()
section_text(s, start, end) == strip(Slice(s, start, end))

skip_with_placeholder(secs, name) == Put(secs, name, <<>>)

\* `continue` when there are no matches: the map is left as it is.
skip_entry(secs, name) == secs

\* One iteration of the loop over patterns: the map and the offsets after it.
entry_step(secs, sp, s, e) ==
  LET matches == re_finditer(e.start, s)
  IN IF matches = <<>>
     THEN [sections |-> skip_entry(secs, e.name), spans |-> sp]
     ELSE LET start == match_start(select_match(matches))
              end == end_offset(e.end, s, start)
          IN [sections |-> Put(secs, e.name, section_text(s, start, end)),
              spans |-> Put(sp, e.name, [start |-> start, end |-> end])]

RECURSIVE extract_loop(_, _, _)
extract_loop(secs, s, k) ==
  IF k > NumPatterns THEN secs
  ELSE extract_loop(entry_step(secs, EmptyMap, s, patterns[k]).sections, s, k + 1)

\* extract_sections(text)
extract_sections(s) == extract_loop(EmptyMap, s, 1)

(***************************************************************************)
(* Filing texts the extractor is run on                                    *)
(***************************************************************************)
Chunks == {
  <<"I","t","e","m"," ","1","."," ","B","u","s","i","n","e","s","s">>,
  <<"I","T","E","M"," ","1","\n","B","U","S","I","N","E","S","S">>,
  <<"I","t","e","m"," ","1","A","."," ","R","i","s","k"," ","F","a","c","t","o","r","s">>,
  <<"i","t","e","m"," ","1","a">>,
  <<"I","t","e","m"," ","1","B">>,
  <<"I","t","e","m"," ","7","."," ","M","a","n","a","g","e","m","e","n","t">>,
  <<"I","T","E","M"," ","7","A">>,
  <<"I","t","e","m"," ","\t","8">>,
  <<"i","t","e","m"," ","9">>,
  <<" ","b","o","d","y"," ","\n">> }

RECURSIVE TextsOf(_)
TextsOf(n) ==
  IF n = 0 THEN {<<>>}
  ELSE LET shorter == TextsOf(n - 1)
       IN shorter \cup {t \o c : t \in shorter, c \in Chunks}

ScenarioText ==
  <<".",".","."," ","I","t","e","m"," ","1","A","."," ","R","i","s","k"," ","F","a","c","t","o","r","s","\n","b","o","i","l","e","r","p","l","a","t","e","\n",".",".","."," ","I","t","e","m"," ","1","A"," ","R","i","s","k"," ","F","a","c","t","o","r","s","\n","r","e","a","l"," ","b","o","d","y"," ","t","e","x","t"," ","h","e","r","e","\n","I","t","e","m"," ","1","B"," ","U","n","r","e","s","o","l","v","e","d"," ","S","t","a","f","f"," ","C","o","m","m","e","n","t","s"," ",".",".",".">>

ScenarioNoEnd ==
  <<".",".","."," ","I","t","e","m"," ","1","A","."," ","R","i","s","k"," ","F","a","c","t","o","r","s","\n","b","o","i","l","e","r","p","l","a","t","e","\n",".",".","."," ","I","t","e","m"," ","1","A"," ","R","i","s","k"," ","F","a","c","t","o","r","s","\n","r","e","a","l"," ","b","o","d","y"," ","t","e","x","t"," ","h","e","r","e","\n">>

Texts == TextsOf(MaxChunks) \cup {ScenarioText, ScenarioNoEnd}

(***************************************************************************)
(* The extractor as a state machine: one step per loop iteration           *)
(***************************************************************************)
\* None, kept apart from every string (strings are made of single characters).
None == <<"None">>

\* Truth value of an optional string: None and "" are false.
truthy(x) == x # None /\ x # <<>>

\* jsonify(body), status
jsonify(body, status) == [status |-> status, body |-> body]

NoResponse == [status |-> 0, body |-> EmptyMap]

PipelineIdle ==
  /\ ticker = <<>> /\ section = <<>> /\ cik = None /\ url = None
  /\ selected = None /\ summary = None /\ response = NoResponse /\ trace = <<>>
  /\ outcome = EmptyMap

pipelineVars ==
  <<ticker, section, cik, url, selected, summary, response, trace, outcome>>

InitExtract ==
  /\ text \in Texts
  /\ sections = EmptyMap
  /\ spans = EmptyMap
  /\ i = 1
  /\ pc = "loop"
  /\ PipelineIdle

\* if not matches: continue
SkipEntry ==
  /\ pc = "loop" /\ i <= NumPatterns
  /\ re_finditer(patterns[i].start, text) = <<>>
  /\ LET r == entry_step(sections, spans, text, patterns[i])
     IN sections' = r.sections /\ spans' = r.spans
  /\ i' = i + 1
  /\ UNCHANGED <<text, pc>>
  /\ UNCHANGED pipelineVars

\* sections[name] = section_text
StoreEntry ==
  /\ pc = "loop" /\ i <= NumPatterns
  /\ re_finditer(patterns[i].start, text) # <<>>
  /\ LET r == entry_step(sections, spans, text, patterns[i])
     IN sections' = r.sections /\ spans' = r.spans
  /\ i' = i + 1
  /\ UNCHANGED <<text, pc>>
  /\ UNCHANGED pipelineVars

\* return sections
ReturnSections ==
  /\ pc = "loop" /\ i > NumPatterns
  /\ pc' = "returned"
  /\ UNCHANGED <<text, sections, spans, i>>
  /\ UNCHANGED pipelineVars

NextExtract == SkipEntry \/ StoreEntry \/ ReturnSections

SpecExtract == InitExtract /\ [][NextExtract]_vars

(***************************************************************************)
(* Properties of extract_sections.  They are stated over every offset at   *)
(* which a pattern matches the whole text, not over the lists and searches *)
(* the extractor itself builds.                                            *)
(***************************************************************************)
\* Every offset of s at which pat matches (overlapping matches included).
MatchPositions(pat, s) == {p \in 0..Len(s) : MatchHere(pat, 1, s, p) # -1}

\* The entries the loop has already been through.
Processed == {patterns[k] : k \in 1..(i - 1)}
Stored == {e \in Processed : e.name \in DOMAIN sections}

CanonicalNames == {patterns[k].name : k \in 1..NumPatterns}

\* v is s without its leading and trailing whitespace.
IsTrimOf(v, s) ==
  IF v = <<>>
  THEN \A k \in 1..Len(s) : s[k] \in Whitespace
  ELSE /\ v[1] \notin Whitespace
       /\ v[Len(v)] \notin Whitespace
       /\ \E a \in 0..(Len(s) - Len(v)) :
            /\ SubSeq(s, a + 1, a + Len(v)) = v
            /\ \A k \in 1..a : s[k] \in Whitespace
            /\ \A k \in (a + Len(v) + 1)..Len(s) : s[k] \in Whitespace

\* C1: when the start pattern of an entry matches the text more than once,
\* the span stored under the entry's name starts at the last offset at which
\* the pattern matches, never at an earlier one.
C1_StartsAtLastMatch ==
  \A e \in Stored :
    LET ps == MatchPositions(e.start, text)
    IN Cardinality(ps) > 1 =>
         /\ spans[e.name].start = MaxOf(ps)
         /\ sections[e.name] = strip(Slice(text, MaxOf(ps), spans[e.name].end))

\* A heading that occurs three times, in different spellings, has been stored.
C1_Witness ==
  \E e \in Stored :
    /\ Cardinality(MatchPositions(e.start, text)) = 3
    /\ spans[e.name].start > 0
    /\ pc = "returned"

\* C2 as stated: the scenario text yields exactly the body line.
C2_ScenarioBodyOnly ==
  (pc = "returned" /\ text = ScenarioText) =>
    /\ RiskFactors \in DOMAIN sections
    /\ sections[RiskFactors] = <<"r","e","a","l"," ","b","o","d","y"," ","t","e","x","t"," ","h","e","r","e">>

\* C2 amended: the scenario text yields the second heading followed by the
\* body line, cut before "Item 1B", and no other section.
C2_ScenarioHeadingAndBody ==
  (pc = "returned" /\ text = ScenarioText) =>
    /\ DOMAIN sections = {RiskFactors}
    /\ sections[RiskFactors] = <<"I","t","e","m"," ","1","A"," ","R","i","s","k"," ","F","a","c","t","o","r","s","\n","r","e","a","l"," ","b","o","d","y"," ","t","e","x","t"," ","h","e","r","e">>

C2_Witness ==
  /\ pc = "returned"
  /\ text = ScenarioText
  /\ RiskFactors \in DOMAIN sections

\* C5: every entry in the map has offsets with 0 <= start < end <= len(text),
\* and its value is text[start:end] without leading and trailing whitespace.
C5_SpanInvariant ==
  \A e \in Stored :
    LET sp == spans[e.name]
    IN /\ 0 <= sp.start
       /\ sp.start < sp.end
       /\ sp.end <= Len(text)
       /\ IsTrimOf(sections[e.name], Slice(text, sp.start, sp.end))

\* A stored slice that had whitespace to lose, ending before the end of the text.
C5_Witness ==
  \E e \in Stored :
    LET sp == spans[e.name]
    IN /\ sp.end < Len(text)
       /\ Len(sections[e.name]) < sp.end - sp.start

\* C6: an entry whose start pattern matches nowhere leaves no key in the map,
\* the keys are canonical names, and a text no start pattern matches yields
\* the empty map.
C6_AbsentWhenNoMatch ==
  /\ \A e \in Processed :
       MatchPositions(e.start, text) = {} => e.name \notin DOMAIN sections
  /\ DOMAIN sections \subseteq CanonicalNames
  /\ (pc = "returned" /\ \A k \in 1..NumPatterns : MatchPositions(patterns[k].start, text) = {})
       => sections = EmptyMap

\* A text with headings of other items only has been run to the end.
C6_Witness ==
  /\ pc = "returned"
  /\ Len(text) > 10
  /\ sections = EmptyMap

\* C7: the end of a stored span is the first offset at or after its start at
\* which the end pattern matches, and len(text) when there is none; matches
\* of the end pattern before the start play no part.
C7_EndIsFirstMatchAfterStart ==
  \A e \in Stored :
    LET sp == spans[e.name]
        after == {p \in MatchPositions(e.end, text) : p >= sp.start}
    IN IF after = {} THEN sp.end = Len(text) ELSE sp.end = MinOf(after)

\* The end pattern matches before the selected start and again after it.
C7_Witness ==
  \E e \in Stored :
    LET sp == spans[e.name]
        ps == MatchPositions(e.end, text)
    IN /\ \E p \in ps : p < sp.start
       /\ \E p \in ps : p > sp.start
       /\ sp.end < Len(text)

\* C10: every stored value is non-empty and begins with the text of the
\* selected start-pattern match, the heading itself.
C10_ValueBeginsWithHeading ==
  \A e \in Stored :
    LET st == MaxOf(MatchPositions(e.start, text))
        heading == Slice(text, st, MatchHere(e.start, 1, text, st))
    IN /\ sections[e.name] # <<>>
       /\ startswith(sections[e.name], heading)

\* A section made of nothing but its heading: the end pattern follows at once.
C10_Witness ==
  \E e \in Stored :
    LET sp == spans[e.name]
    IN /\ sp.end = MatchHere(e.start, 1, text, sp.start)
       /\ sp.end < Len(text)

(***************************************************************************)
(* The helpers of the request pipeline.  What an external service answers  *)
(* is a reply record: kind is "ok" or the exception the call raises, data  *)
(* is the payload, tag names what the service did.                         *)
(***************************************************************************)
DigitChars == <<"0", "1", "2", "3", "4", "5", "6", "7", "8", "9">>

\* str(n) for n >= 0
RECURSIVE str_int(_)
str_int(n) ==
  IF n < 10 THEN <<DigitChars[n + 1]>>
  ELSE str_int(n \div 10) \o <<DigitChars[(n % 10) + 1]>>

\* str.zfill(width)
RECURSIVE zfill(_, _)
zfill(s, width) == IF Len(s) >= width THEN s ELSE zfill(<<"0">> \o s, width)

DigitValue(ch) == CHOOSE d \in 0..9 : DigitChars[d + 1] = ch

\* int(s) for a string of digits
RECURSIVE int_str(_)
int_str(s) ==
  IF s = <<>> THEN 0
  ELSE 10 * int_str(SubSeq(s, 1, Len(s) - 1)) + DigitValue(s[Len(s)])

\* s.replace(ch, '')
remove_char(s, ch) == SelectSeq(s, LAMBDA x : x # ch)

\* get_cik(ticker), given the reply of the company directory
get_cik(tkr, reply) ==
  IF reply.kind # "ok" THEN None
  ELSE LET hits == {k \in 1..Len(reply.data) : lower(reply.data[k].ticker) = lower(tkr)}
       IN IF hits = {} THEN None
          ELSE zfill(str_int(reply.data[MinOf(hits)].cik_str), 10)

\* get_latest_10k_url(cik), given the reply of the submissions index
get_latest_10k_url(c, reply) ==
  IF reply.kind # "ok" THEN None
  ELSE LET forms == reply.data.form
           hits == {k \in 1..Len(forms) : forms[k] = "10-K"}
       IN IF hits = {} THEN None
          ELSE LET k == MinOf(hits)
               IN <<"h","t","t","p","s",":","/","/","w","w","w",".","s","e","c",".","g","o","v","/","A","r","c","h","i","v","e","s","/","e","d","g","a","r","/","d","a","t","a","/">> \o str_int(int_str(c))
                    \o <<"/">> \o remove_char(reply.data.accessionNumber[k], "-")
                    \o <<"/">> \o reply.data.primaryDocument[k]

\* fetch_10k_text(url), given the reply of the archive; data is the text
\* BeautifulSoup renders from the page.
fetch_10k_text(u, reply) ==
  IF reply.kind # "ok" THEN None ELSE reply.data

\* analyze_with_gemini(section_name, section_text), given the model's reply
analyze_with_gemini(section_name, sec_text, reply) ==
  IF reply.kind = "ok" THEN reply.data
  ELSE <<"E","r","r","o","r",":"," ","U","n","a","b","l","e"," ","t","o"," ","g","e","n","e","r","a","t","e"," ","s","u","m","m","a","r","y"," ","f","o","r"," ">> \o section_name \o <<"."," ">> \o reply.data

summary_never_failed(s) == FALSE

\* not summary or summary.startswith("Error:")
summary_failed(s) == ~truthy(s) \/ startswith(s, <<"E","r","r","o","r",":">>)

Base64Alphabet == <<"A","B","C","D","E","F","G","H","I","J","K","L","M","N","O","P","Q","R","S","T","U","V","W","X","Y","Z","a","b","c","d","e","f","g","h","i","j","k","l","m","n","o","p","q","r","s","t","u","v","w","x","y","z","0","1","2","3","4","5","6","7","8","9","+","/">>

\* One group of up to three bytes as four base64 characters.
b64_group(g) ==
  LET b1 == g[1]
      b2 == IF Len(g) >= 2 THEN g[2] ELSE 0
      b3 == IF Len(g) >= 3 THEN g[3] ELSE 0
      n == b1 * 65536 + b2 * 256 + b3
  IN << Base64Alphabet[(n \div 262144) + 1],
        Base64Alphabet[((n \div 4096) % 64) + 1],
        IF Len(g) >= 2 THEN Base64Alphabet[((n \div 64) % 64) + 1] ELSE "=",
        IF Len(g) >= 3 THEN Base64Alphabet[(n % 64) + 1] ELSE "=" >>

\* base64.b64encode(data).decode('utf-8')
RECURSIVE b64encode(_)
b64encode(data) ==
  IF data = <<>> THEN <<>>
  ELSE IF Len(data) <= 3 THEN b64_group(data)
  ELSE b64_group(SubSeq(data, 1, 3)) \o b64encode(SubSeq(data, 4, Len(data)))

lookup_case_sensitive(name) == name

\* section_key = section.lower()
section_key_of(name) == lower(name)

\* normalized_sections = {k.lower(): v for k, v in sections.items()}
normalized(secs) ==
  [lk \in {lower(k) : k \in DOMAIN secs} |->
     secs[CHOOSE k \in DOMAIN secs : lower(k) = lk]]

summary_as_error(tkr, sec, summ) ==
  jsonify("error" :> <<"F","a","i","l","e","d"," ","t","o"," ","g","e","n","e","r","a","t","e"," ","a","u","d","i","o">>, 500)

\* The response of the except branch around the narration.
summary_only(tkr, sec, summ) ==
  jsonify(("ticker" :> tkr) @@ ("section" :> sec) @@ ("summary" :> summ), 200)

\* The narration step with its except branch: the response it returns.
narrate(tkr, sec, summ, reply) ==
  IF reply.kind = "ok"
  THEN jsonify(("ticker" :> tkr) @@ ("section" :> sec) @@ ("summary" :> summ)
                 @@ ("audio_data" :> b64encode(reply.data))
                 @@ ("audio_mime" :> <<"a","u","d","i","o","/","w","a","v">>), 200)
  ELSE summary_only(tkr, sec, summ)

(***************************************************************************)
(* What the external services may answer                                   *)
(***************************************************************************)
Directory == << [cik_str |-> 320193, ticker |-> <<"A","A","P","L">>],
                [cik_str |-> 789019, ticker |-> <<"M","S","F","T">>] >>

CikReplies == {
  [tag |-> "directory", kind |-> "ok", data |-> Directory],
  [tag |-> "network", kind |-> "RequestException", data |-> <<>>],
  [tag |-> "malformed", kind |-> "KeyError", data |-> <<>>] }

WithTenK == [form |-> <<"10-Q", "10-K", "10-K">>,
             accessionNumber |-> <<<<"0","0","0","1","-","2","4","-","0","7">>, <<"0","0","0","1","-","2","4","-","0","5">>, <<"0","0","0","1","-","2","3","-","0","6">>>>,
             primaryDocument |-> <<<<"q","3",".","h","t","m">>, <<"k","2","4",".","h","t","m">>, <<"k","2","3",".","h","t","m">>>>]

WithoutTenK == [form |-> <<"10-Q", "8-K">>,
                accessionNumber |-> <<<<"0","0","0","1","-","2","4","-","0","7">>, <<"0","0","0","1","-","2","4","-","0","2">>>>,
                primaryDocument |-> <<<<"q","3",".","h","t","m">>, <<"e",".","h","t","m">>>>]

UrlReplies == {
  [tag |-> "has_10k", kind |-> "ok", data |-> WithTenK],
  [tag |-> "no_10k", kind |-> "ok", data |-> WithoutTenK],
  [tag |-> "network", kind |-> "RequestException", data |-> <<>>],
  [tag |-> "malformed", kind |-> "KeyError", data |-> <<>>] }

SmallFiling ==
  <<"I","t","e","m"," ","1","."," ","B","u","s","i","n","e","s","s","\n","F","r","u","i","t",".","\n","I","t","e","m"," ","1","A","."," ","R","i","s","k"," ","F","a","c","t","o","r","s","\n","W","e","a","t","h","e","r",".","\n","I","t","e","m"," ","1","B">>

FetchReplies == {
  [tag |-> "page", kind |-> "ok", data |-> ScenarioText],
  [tag |-> "page", kind |-> "ok", data |-> SmallFiling],
  [tag |-> "page", kind |-> "ok", data |-> <<"A"," ","r","e","p","o","r","t"," ","w","i","t","h","o","u","t"," ","h","e","a","d","i","n","g","s">>],
  [tag |-> "empty_page", kind |-> "ok", data |-> <<>>],
  [tag |-> "timeout", kind |-> "Timeout", data |-> <<>>],
  [tag |-> "network", kind |-> "RequestException", data |-> <<>>] }

SummaryReplies == {
  [tag |-> "text", kind |-> "ok", data |-> <<"A"," ","f","i","n","e"," ","b","u","s","i","n","e","s","s",".">>],
  [tag |-> "text", kind |-> "ok", data |-> <<"E","r","r","o","r",":"," ","m","a","r","g","i","n"," ","i","s"," ","t","h","i","n",".">>],
  [tag |-> "no_text", kind |-> "ok", data |-> None],
  [tag |-> "failure", kind |-> "Exception", data |-> <<"q","u","o","t","a">>] }

TtsReplies == {
  [tag |-> "audio", kind |-> "ok", data |-> <<82, 73, 70, 70, 0>>],
  [tag |-> "audio", kind |-> "ok", data |-> <<255, 1>>],
  [tag |-> "failure", kind |-> "Exception", data |-> <<>>],
  [tag |-> "no_candidates", kind |-> "IndexError", data |-> <<>>],
  [tag |-> "no_data", kind |-> "TypeError", data |-> <<>>] }

Tickers == { <<"A","A","P","L">>, <<"a","a","p","l">>, <<"N","O","P","E">> }

Requests == { <<"R","i","s","k"," ","F","a","c","t","o","r","s">>, <<"r","i","s","k"," ","f","a","c","t","o","r","s">>, <<"R","I","S","K"," ","F","A","C","T","O","R","S">>, <<"R","i","s","k">>,
              <<"R","i","s","k"," ","F","a","c","t","o","r","s"," ">>, <<"E","x","e","c","u","t","i","v","e"," ","C","o","m","p","e","n","s","a","t","i","o","n">>, <<"b","u","s","i","n","e","s","s">> }

(***************************************************************************)
(* analyze_10k as a state machine: one step per stage, each with the check *)
(* that follows the call and the response it returns on failure            *)
(***************************************************************************)
Init ==
  /\ ticker \in Tickers
  /\ section \in Requests
  /\ text = <<>> /\ sections = EmptyMap /\ spans = EmptyMap /\ i = 1
  /\ pc = "get_cik"
  /\ cik = None /\ url = None /\ selected = None /\ summary = None
  /\ response = NoResponse /\ trace = <<>> /\ outcome = EmptyMap

\* The stage runs and the handler returns resp.
Returns(stage, tag, resp) ==
  /\ response' = resp
  /\ pc' = "done"
  /\ trace' = trace \o <<stage, "response">>
  /\ outcome' = Put(outcome, stage, tag)

\* The stage runs and the handler goes on to the next stage.
GoesOn(stage, tag, next) ==
  /\ pc' = next
  /\ trace' = trace \o <<stage>>
  /\ outcome' = Put(outcome, stage, tag)
  /\ UNCHANGED response

\* Step 1: cik = get_cik(ticker)
GetCik ==
  /\ pc = "get_cik"
  /\ \E reply \in CikReplies :
       LET c == get_cik(ticker, reply)
       IN /\ cik' = c
          /\ IF ~truthy(c)
             THEN Returns("get_cik", reply.tag,
                          jsonify("error" :> <<"T","i","c","k","e","r"," ","n","o","t"," ","f","o","u","n","d">>, 404))
             ELSE GoesOn("get_cik", reply.tag, "get_latest_10k_url")
  /\ UNCHANGED <<text, sections, spans, i, ticker, section, url, selected, summary>>

\* Step 2: url = get_latest_10k_url(cik)
GetLatest10kUrl ==
  /\ pc = "get_latest_10k_url"
  /\ \E reply \in UrlReplies :
       LET u == get_latest_10k_url(cik, reply)
       IN /\ url' = u
          /\ IF ~truthy(u)
             THEN Returns("get_latest_10k_url", reply.tag,
                          jsonify("error" :> <<"N","o"," ","1","0","-","K"," ","f","o","u","n","d">>, 404))
             ELSE GoesOn("get_latest_10k_url", reply.tag, "fetch_10k_text")
  /\ UNCHANGED <<text, sections, spans, i, ticker, section, cik, selected, summary>>

\* Step 3: text = fetch_10k_text(url)
Fetch10kText ==
  /\ pc = "fetch_10k_text"
  /\ \E reply \in FetchReplies :
       LET t == fetch_10k_text(url, reply)
       IN IF ~truthy(t)
          THEN /\ Returns("fetch_10k_text", reply.tag,
                          jsonify("error" :> <<"F","a","i","l","e","d"," ","t","o"," ","f","e","t","c","h"," ","1","0","-","K"," ","c","o","n","t","e","n","t">>, 500))
               /\ UNCHANGED text
          ELSE /\ GoesOn("fetch_10k_text", reply.tag, "extract_sections")
               /\ text' = t
  /\ UNCHANGED <<sections, spans, i, ticker, section, cik, url, selected, summary>>

\* Step 4: sections = extract_sections(text)
ExtractSections ==
  /\ pc = "extract_sections"
  /\ LET secs == extract_sections(text)
     IN /\ sections' = secs
        /\ IF secs = EmptyMap
           THEN Returns("extract_sections", "empty",
                        jsonify("error" :> <<"N","o"," ","s","e","c","t","i","o","n","s"," ","f","o","u","n","d"," ","i","n"," ","1","0","-","K">>, 404))
           ELSE GoesOn("extract_sections", "sections", "select")
  /\ UNCHANGED <<text, spans, i, ticker, section, cik, url, selected, summary>>

\* Step 5: look the requested section up in the lowercase-keyed view
SelectSection ==
  /\ pc = "select"
  /\ LET normalized_sections == normalized(sections)
         section_key == section_key_of(section)
     IN IF section_key \notin DOMAIN normalized_sections
        THEN /\ Returns("select", "absent",
                        jsonify("error" :> (<<"S","e","c","t","i","o","n"," ">> \o section \o <<" ","n","o","t"," ","f","o","u","n","d">>), 404))
             /\ UNCHANGED selected
        ELSE /\ GoesOn("select", "present", "analyze_with_gemini")
             /\ selected' = normalized_sections[section_key]
  /\ UNCHANGED <<text, sections, spans, i, ticker, section, cik, url, summary>>

\* Step 6: summary = analyze_with_gemini(section, normalized_sections[section_key])
AnalyzeWithGemini ==
  /\ pc = "analyze_with_gemini"
  /\ \E reply \in SummaryReplies :
       LET s == analyze_with_gemini(section, selected, reply)
       IN /\ summary' = s
          /\ IF summary_failed(s)
             THEN Returns("analyze_with_gemini", reply.tag,
                          jsonify("error" :> <<"F","a","i","l","e","d"," ","t","o"," ","g","e","n","e","r","a","t","e"," ","s","u","m","m","a","r","y">>, 500))
             ELSE GoesOn("analyze_with_gemini", reply.tag, "tts")
  /\ UNCHANGED <<text, sections, spans, i, ticker, section, cik, url, selected>>

\* The narration inside its own try, and the response either way
Narrate ==
  /\ pc = "tts"
  /\ \E reply \in TtsReplies :
       Returns("tts", reply.tag, narrate(ticker, section, summary, reply))
  /\ UNCHANGED <<text, sections, spans, i, ticker, section, cik, url, selected, summary>>

\* except Exception around the whole handler: an exception raised between
\* the stages (MemoryError, say) is answered with 500.
InternalError ==
  /\ pc \in {"get_cik", "get_latest_10k_url", "fetch_10k_text", "extract_sections",
             "select", "analyze_with_gemini", "tts"}
  /\ response' = jsonify("error" :> <<"I","n","t","e","r","n","a","l"," ","s","e","r","v","e","r"," ","e","r","r","o","r">>, 500)
  /\ pc' = "done"
  /\ trace' = trace \o <<"response">>
  /\ outcome' = Put(outcome, "internal", "exception")
  /\ UNCHANGED <<text, sections, spans, i, ticker, section, cik, url, selected, summary>>

Next ==
  \/ GetCik
  \/ GetLatest10kUrl
  \/ Fetch10kText
  \/ ExtractSections
  \/ SelectSection
  \/ AnalyzeWithGemini
  \/ Narrate
  \/ InternalError

Spec == Init /\ [][Next]_vars

(***************************************************************************)
(* Properties of analyze_10k.  What happened to a request is read from the *)
(* replies the services gave (outcome) and the stages that ran (trace).    *)
(***************************************************************************)
StageOrder == <<"get_cik", "get_latest_10k_url", "fetch_10k_text", "extract_sections",
                "select", "analyze_with_gemini", "tts">>

Responded == response.status # 0

\* a and b are equal up to the case of their letters.
EqIgnoreCase(a, b) ==
  /\ Len(a) = Len(b)
  /\ \A k \in 1..Len(a) :
       \/ a[k] = b[k]
       \/ a[k] \in DOMAIN UpperToLower /\ UpperToLower[a[k]] = b[k]
       \/ b[k] \in DOMAIN UpperToLower /\ UpperToLower[b[k]] = a[k]

Ran(stage) == stage \in DOMAIN outcome

\* The kinds of outcome that stop a request.
TickerUnresolvable ==
  /\ Ran("get_cik") /\ outcome["get_cik"] = "directory"
  /\ \A k \in 1..Len(Directory) : ~EqIgnoreCase(Directory[k].ticker, ticker)
NoFiling == Ran("get_latest_10k_url") /\ outcome["get_latest_10k_url"] = "no_10k"
ExtractionEmpty == Ran("extract_sections") /\ outcome["extract_sections"] = "empty"
SectionAbsent ==
  /\ Ran("select")
  /\ \A k \in DOMAIN sections : ~EqIgnoreCase(k, section)
NotFound == TickerUnresolvable \/ NoFiling \/ ExtractionEmpty \/ SectionAbsent

UpstreamFailure ==
  \E stage \in {"get_cik", "get_latest_10k_url", "fetch_10k_text"} :
    Ran(stage) /\ outcome[stage] \in {"network", "timeout"}
SummarizerFailure ==
  Ran("analyze_with_gemini") /\ outcome["analyze_with_gemini"] \in {"failure", "no_text"}
InternalFailure == Ran("internal")

\* C3: the status is 404 exactly when the request stopped on a NotFound kind,
\* and 500 whenever it stopped on an upstream, summarizer or internal failure.
C3_StatusFollowsErrorKind ==
  Responded =>
    /\ (response.status = 404) <=> NotFound
    /\ (UpstreamFailure \/ SummarizerFailure \/ InternalFailure) => response.status = 500

NarrationFailed == Ran("tts") /\ outcome["tts"] # "audio"

\* C4: when the narration fails, the response is a success that carries the
\* ticker, the section and the summary and no audio field.
C4_NarrationFailureKeepsSummary ==
  NarrationFailed =>
    /\ response.status = 200
    /\ DOMAIN response.body = {"ticker", "section", "summary"}
    /\ response.body["ticker"] = ticker
    /\ response.body["section"] = section
    /\ response.body["summary"] = summary
    /\ truthy(summary)

C4_Witness ==
  /\ NarrationFailed
  /\ outcome["tts"] = "no_data"
  /\ pc = "done"

\* C8: the requested name resolves exactly when it equals, up to letter case,
\* a key of the map, and then to that key's text; otherwise the answer is the
\* 404 "section not found" and nothing is summarized.
C8_CaseInsensitiveExactLookup ==
  Ran("select") =>
    LET keys == {k \in DOMAIN sections : EqIgnoreCase(k, section)}
    IN IF keys = {}
       THEN /\ response = jsonify("error" :> (<<"S","e","c","t","i","o","n"," ">> \o section \o <<" ","n","o","t"," ","f","o","u","n","d">>), 404)
            /\ ~Ran("analyze_with_gemini")
            /\ selected = None
       ELSE /\ Cardinality(keys) = 1
            /\ \A k \in keys : selected = sections[k]
            /\ response.status # 404

\* A request in capitals has been resolved to the text under "Risk Factors".
C8_Witness ==
  /\ section = <<"R","I","S","K"," ","F","A","C","T","O","R","S">>
  /\ Ran("analyze_with_gemini")
  /\ selected = sections[RiskFactors]

\* The stage returned a value the next stage can work on.
Succeeded(stage) ==
  CASE stage = "get_cik" -> outcome[stage] = "directory" /\ ~TickerUnresolvable
    [] stage = "get_latest_10k_url" -> outcome[stage] = "has_10k"
    [] stage = "fetch_10k_text" -> outcome[stage] = "page"
    [] stage = "extract_sections" -> outcome[stage] = "sections"
    [] stage = "select" -> ~SectionAbsent
    [] stage = "analyze_with_gemini" -> outcome[stage] = "text"
    [] OTHER -> TRUE

\* C9: the stages run in the fixed order, each at most once and only after
\* every earlier stage succeeded; one response is produced, and it is the
\* last thing that happens.
C9_StagesInOrderOneResponse ==
  LET n == Cardinality({k \in 1..Len(trace) : trace[k] # "response"})
  IN /\ n <= Len(StageOrder)
     /\ \/ trace = SubSeq(StageOrder, 1, n)
        \/ trace = SubSeq(StageOrder, 1, n) \o <<"response">>
     /\ \A k \in 1..(n - 1) : Succeeded(StageOrder[k])
     /\ (pc = "done") <=> (trace # <<>> /\ trace[Len(trace)] = "response")
     /\ Responded <=> (pc = "done")
     /\ pc # "done" => pc = StageOrder[n + 1]

\* All seven stages ran and the response followed.
C9_Witness ==
  /\ Len(trace) = 8
  /\ pc = "done"
  /\ "audio_data" \in DOMAIN response.body

====
